---- MODULE Spec2Model ----
(***************************************************************************)
(* Model of analyze-ntlm.py: the NTLM reuse analyzer.  Strings are         *)
(* sequences of one-character strings so that strip, split, lower-casing   *)
(* and prefix/suffix tests are computed as the Python code computes them.  *)
(***************************************************************************)
EXTENDS Integers, Sequences, FiniteSets, TLC

VARIABLES
    priv_file,          \* how the -p argument resolves: absent/missing/unreadable/ok
    priv_lines,         \* the lines of the privileged-list file
    filename,           \* how the -f argument resolves: missing/unreadable/ok
    lines,              \* the lines of the dump file
    include_empty,      \* --include-empty
    pc,                 \* position inside analyze_hashes
    priv_users,         \* set built by load_privileged_users
    hash_map,           \* insertion-ordered dict: sequence of [hash, users]
    idx,                \* 1-based index of the next dump line to read
    shared_hashes,      \* insertion-ordered dict of the groups with > 1 user
    sorted_hashes,      \* list of (hash, users) items, sorted
    total_priv_reuse,
    total_self_reuse,
    gi,                 \* 1-based index of the next group in a loop over sorted_hashes
    out,                \* what was printed, in order
    exit_status,        \* process exit status, -1 while running
    full_username,      \* argument of a stand-alone get_base_username call
    base                \* its result, <<"unset">> before the call

vars == <<priv_file, priv_lines, filename, lines, include_empty, pc, priv_users,
          hash_map, idx, shared_hashes, sorted_hashes, total_priv_reuse,
          total_self_reuse, gi, out, exit_status, full_username, base>>

----------------------------------------------------------------------------
(* Bounds *)

MaxLines == 3
MaxSortLines == 5
MaxDomainDepth == 1

----------------------------------------------------------------------------
(* Python string primitives *)

\* the letters str.lower() changes
LOWER ==
    "A" :> "a" @@ "B" :> "b" @@ "C" :> "c" @@ "D" :> "d" @@ "E" :> "e" @@ "F" :> "f" @@
    "G" :> "g" @@ "H" :> "h" @@ "I" :> "i" @@ "J" :> "j" @@ "K" :> "k" @@ "L" :> "l" @@
    "M" :> "m" @@ "N" :> "n" @@ "O" :> "o" @@ "P" :> "p" @@ "Q" :> "q" @@ "R" :> "r" @@
    "S" :> "s" @@ "T" :> "t" @@ "U" :> "u" @@ "V" :> "v" @@ "W" :> "w" @@ "X" :> "x" @@
    "Y" :> "y" @@ "Z" :> "z"

WHITESPACE == {" ", "\t", "\n", "\r"}

BACKSLASH == "\\"

lower_char(c) == IF c \in DOMAIN LOWER THEN LOWER[c] ELSE c

\* str.lower()
lower(s) == [i \in 1..Len(s) |-> lower_char(s[i])]

\* str.strip()
RECURSIVE lstrip(_)
lstrip(s) ==
    IF s # <<>> /\ Head(s) \in WHITESPACE THEN lstrip(Tail(s)) ELSE s

RECURSIVE rstrip(_)
rstrip(s) ==
    IF s # <<>> /\ s[Len(s)] \in WHITESPACE
    THEN rstrip(SubSeq(s, 1, Len(s) - 1))
    ELSE s

strip(s) == rstrip(lstrip(s))

\* str.split(sep) for a one-character separator: always at least one field;
\* the field that is being scanned starts at position start
RECURSIVE split_from(_, _, _, _)
split_from(s, sep, i, start) ==
    IF i > Len(s) THEN <<SubSeq(s, start, Len(s))>>
    ELSE IF s[i] = sep
         THEN <<SubSeq(s, start, i - 1)>> \o split_from(s, sep, i + 1, i + 1)
         ELSE split_from(s, sep, i + 1, start)

split(s, sep) == split_from(s, sep, 1, 1)

\* sep in s
contains(s, c) == \E i \in 1..Len(s) : s[i] = c

\* str.startswith(pre) / str.endswith(suf)
startswith(s, pre) ==
    Len(pre) <= Len(s) /\ SubSeq(s, 1, Len(pre)) = pre

endswith(s, suf) ==
    Len(suf) <= Len(s) /\ SubSeq(s, Len(s) - Len(suf) + 1, Len(s)) = suf

\* list.count(x)
RECURSIVE count(_, _)
count(xs, x) ==
    IF xs = <<>> THEN 0
    ELSE (IF Head(xs) = x THEN 1 ELSE 0) + count(Tail(xs), x)

\* set(xs)
set(xs) == {xs[i] : i \in 1..Len(xs)}

----------------------------------------------------------------------------
(* Module constants *)

EMPTY_HASH == <<"3","1","d","6","c","f","e","0","d","1","6","a","e","9","3","1","b","7","3","c","5","9","d","7","e","0","c","0","8","9","c","0">>

PREFIXES == << <<"a",".">>, <<"a","d","m",".">>, <<"a","d","m","_">>,
               <<"a","d","m","i","n">>, <<"d","a",".">>, <<"d","a","_">> >>

SUFFIXES == << <<"_","a","d","m">>, <<".","a","d","m","i","n">>,
               <<"_","a","d","m","i","n">>, <<".","a">>, <<"_","d","a">>,
               <<".","d","a">> >>

----------------------------------------------------------------------------
(* Pure functions *)

\* u.split("\\")[-1].lower() if "\\" in u else u.lower()
clean_username(u) ==
    IF contains(u, BACKSLASH)
    THEN LET parts == split(u, BACKSLASH) IN lower(parts[Len(parts)])
    ELSE lower(u)

\* the suffix loop of get_base_username
RECURSIVE strip_suffixes(_, _)
strip_suffixes(user, k) ==
    IF k > Len(SUFFIXES) THEN user
    ELSE IF endswith(user, SUFFIXES[k])
         THEN SubSeq(user, 1, Len(user) - Len(SUFFIXES[k]))
         ELSE strip_suffixes(user, k + 1)

\* the prefix loop of get_base_username, falling through to the suffix loop
RECURSIVE strip_prefixes(_, _)
strip_prefixes(user, k) ==
    IF k > Len(PREFIXES) THEN strip_suffixes(user, 1)
    ELSE IF startswith(user, PREFIXES[k])
         THEN SubSeq(user, Len(PREFIXES[k]) + 1, Len(user))
         ELSE strip_prefixes(user, k + 1)

\* variant: the prefix loop is missing
get_base_username_suffix_only(name) == strip_suffixes(clean_username(name), 1)

\* variant: a suffix is stripped after a prefix as well
get_base_username_both(name) ==
    strip_suffixes(strip_prefixes(clean_username(name), 1), 1)

get_base_username(name) == strip_prefixes(clean_username(name), 1)

is_pattern_admin(name) ==
    LET user == clean_username(name) IN
        \/ \E k \in 1..Len(PREFIXES) : startswith(user, PREFIXES[k])
        \/ \E k \in 1..Len(SUFFIXES) : endswith(user, SUFFIXES[k])

\* the loop body of load_privileged_users, folded over the file's lines
RECURSIVE load_privileged_users(_)
load_privileged_users(ls) ==
    IF ls = <<>> THEN {}
    ELSE LET u == lower(strip(Head(ls)))
             rest == load_privileged_users(Tail(ls))
         IN  IF u = <<>> THEN rest
             ELSE IF contains(u, BACKSLASH)
                  THEN LET parts == split(u, BACKSLASH) IN {parts[Len(parts)]} \cup rest
                  ELSE {u} \cup rest

----------------------------------------------------------------------------
(* The steps of analyze_hashes as operators *)

\* variant: a username already in the list is not appended again
dict_append_dedup(hm, nt_hash, user) ==
    IF \E i \in 1..Len(hm) : hm[i].hash = nt_hash
    THEN [i \in 1..Len(hm) |->
            IF hm[i].hash = nt_hash /\ user \notin set(hm[i].users)
            THEN [hash |-> hm[i].hash, users |-> Append(hm[i].users, user)]
            ELSE hm[i]]
    ELSE Append(hm, [hash |-> nt_hash, users |-> <<user>>])

\* hash_map[nt_hash].append(user) on an insertion-ordered defaultdict(list)
dict_append(hm, nt_hash, user) ==
    IF \E i \in 1..Len(hm) : hm[i].hash = nt_hash
    THEN [i \in 1..Len(hm) |->
            IF hm[i].hash = nt_hash
            THEN [hash |-> hm[i].hash, users |-> Append(hm[i].users, user)]
            ELSE hm[i]]
    ELSE Append(hm, [hash |-> nt_hash, users |-> <<user>>])

\* variant: the hash is not lower-cased
nt_hash_raw(parts) == parts[4]

\* nt_hash = parts[3].lower()
nt_hash_of(parts) == lower(parts[4])

\* not include_empty and nt_hash == EMPTY_HASH
skip_empty(inc, nt_hash) == ~inc /\ nt_hash = EMPTY_HASH

\* one iteration of the parsing loop
parse_line(hm, raw, inc) ==
    LET line == strip(raw)
        parts == split(line, ":")
    IN  IF line = <<>> \/ Len(parts) < 4 THEN hm
        ELSE IF skip_empty(inc, nt_hash_of(parts)) THEN hm
        ELSE dict_append(hm, nt_hash_of(parts), parts[1])

\* {k: v for k, v in hash_map.items() if len(v) > 1}
is_shared(item) == Len(item.users) > 1

filter_shared(hm) == SelectSeq(hm, is_shared)

\* variant: an item goes ahead of the items with an equal key
insert_sorted_unstable(res, item) ==
    LET ahead == {i \in 1..Len(res) : Len(res[i].users) > Len(item.users)}
        n == Cardinality(ahead)
    IN  SubSeq(res, 1, n) \o <<item>> \o SubSeq(res, n + 1, Len(res))

\* where list.sort(reverse=True) places one more item: behind every item
\* whose key is not smaller, which keeps equal keys in their original order
insert_sorted(res, item) ==
    LET ahead == {i \in 1..Len(res) : Len(res[i].users) >= Len(item.users)}
        n == Cardinality(ahead)
    IN  SubSeq(res, 1, n) \o <<item>> \o SubSeq(res, n + 1, Len(res))

\* sorted(items, key=lambda item: len(item[1]), reverse=True)
RECURSIVE sorted_by_len_desc(_)
sorted_by_len_desc(items) ==
    IF items = <<>> THEN <<>>
    ELSE insert_sorted(sorted_by_len_desc(SubSeq(items, 1, Len(items) - 1)),
                       items[Len(items)])

\* the inner loop "for u in users: if u_clean in priv_users: total_priv_reuse += 1"
RECURSIVE priv_hits(_, _)
priv_hits(users, priv) ==
    IF users = <<>> THEN 0
    ELSE (IF clean_username(Head(users)) \in priv THEN 1 ELSE 0)
         + priv_hits(Tail(users), priv)

\* [get_base_username(x) for x in users]
base_names_of(users) == [i \in 1..Len(users) |-> get_base_username(users[i])]

\* variant: one collision is not enough
has_self_reuse_strict(users) ==
    Cardinality(set(base_names_of(users))) < Len(base_names_of(users)) - 1

\* len(set(base_names)) < len(base_names)
has_self_reuse(users) ==
    Cardinality(set(base_names_of(users))) < Len(base_names_of(users))

\* variant: the self-reuse test comes before the privileged test
format_user_self_first(u, users, priv) ==
    LET u_clean == clean_username(u)
        u_base == get_base_username(u)
        group_base_names == base_names_of(users)
    IN  IF count(group_base_names, u_base) > 1
        THEN [color |-> "CYAN", user |-> u, suffix |-> ""]
        ELSE IF u_clean \in priv
        THEN [color |-> "YELLOW", user |-> u, suffix |-> "(DA)"]
        ELSE IF is_pattern_admin(u)
        THEN [color |-> "RED", user |-> u, suffix |-> ""]
        ELSE [color |-> "", user |-> u, suffix |-> ""]

not_privileged(u, priv) == clean_username(u) \notin priv

\* variant: the base names of privileged members are left out of the group's list
format_user_skip_priv(u, users, priv) ==
    LET u_clean == clean_username(u)
        u_base == get_base_username(u)
        group_base_names ==
            base_names_of(SelectSeq(users, LAMBDA x : not_privileged(x, priv)))
    IN  IF u_clean \in priv
        THEN [color |-> "YELLOW", user |-> u, suffix |-> "(DA)"]
        ELSE IF count(group_base_names, u_base) > 1
        THEN [color |-> "CYAN", user |-> u, suffix |-> ""]
        ELSE IF is_pattern_admin(u)
        THEN [color |-> "RED", user |-> u, suffix |-> ""]
        ELSE [color |-> "", user |-> u, suffix |-> ""]

\* the if/elif chain that formats one user of a group
format_user(u, users, priv) ==
    LET u_clean == clean_username(u)
        u_base == get_base_username(u)
        group_base_names == base_names_of(users)
    IN  IF u_clean \in priv
        THEN [color |-> "YELLOW", user |-> u, suffix |-> "(DA)"]
        ELSE IF count(group_base_names, u_base) > 1
        THEN [color |-> "CYAN", user |-> u, suffix |-> ""]
        ELSE IF is_pattern_admin(u)
        THEN [color |-> "RED", user |-> u, suffix |-> ""]
        ELSE [color |-> "", user |-> u, suffix |-> ""]

\* formatted_users after the loop over enumerate(users)
formatted_users_of(users, priv) ==
    [i \in 1..Len(users) |-> format_user(users[i], users, priv)]

----------------------------------------------------------------------------
(* Inputs *)

SeqsUpTo(S, n) == UNION {[1..k -> S] : k \in 0..n}

LineBob == <<"b","o","b",":","1","0","0","1",":","a","a","d","3","b",":","E","0",":",":",":">>
LineAdmBob == <<"a","d","m","_","b","o","b",":","1","0","0","2",":","a","a","d","3","b",":","E","0",":",":",":">>
LineAlice == <<"a","l","i","c","e",":","1","0","0","3",":","a","a","d","3","b",":","F","1",":",":",":">>
LineGuest == <<"G","u","e","s","t",":","5","0","1",":","a","a","d","3","b",":","3","1","D","6","C","F","E","0","D","1","6","A","E","9","3","1","B","7","3","C","5","9","D","7","E","0","C","0","8","9","c","0",":",":",":">>
LineDomBob == <<" "," ","D","O","M","\\","B","o","b",":","1","0","0","4",":","a","a","d","3","b",":","e","0"," ">>
LineDaEve == <<"d","a","_","e","v","e",":","1","0","0","5",":","a","a","d","3","b",":","f","1",":",":",":">>
LineShort == <<"j","u","n","k",":","1",":","2">>

DumpLines == {LineBob, LineAdmBob, LineAlice, LineGuest, LineDomBob, LineDaEve,
              LineShort}

SortA == <<"a",":","1",":","x",":","e","0">>
SortB == <<"b",":","1",":","x",":","F","1">>
SortC == <<"c",":","1",":","x",":","9","a">>

SortLines == {SortA, SortB, SortC}

\* short dumps of varied lines, and longer dumps that differ in their hashes only
DumpFiles == SeqsUpTo(DumpLines, MaxLines)
SortFiles == SeqsUpTo(SortLines, MaxSortLines)

PrivBob == <<"b","o","b">>
PrivDomAdm == <<" ","C","O","R","P","\\","A","d","m","_","B","o","b"," ">>
PrivEve == <<"D","A","_","E","V","E">>

PrivFiles == {<<PrivBob>>, <<PrivDomAdm, <<>>, PrivEve>>}

Domain == <<"D","a","_","X","\\">>

RECURSIVE Domains(_)
Domains(k) == IF k = 0 THEN <<>> ELSE Domain \o Domains(k - 1)

NamePrefixes == {<<>>, <<"A","D","M","_">>} \cup set(PREFIXES)
NameCores == {<<>>, <<"a">>, <<"A","l">>, <<"b","o","b">>}
NameSuffixes == {<<>>} \cup set(SUFFIXES)

Names == {Domains(k) \o p \o c \o s :
            k \in 0..MaxDomainDepth, p \in NamePrefixes, c \in NameCores,
            s \in NameSuffixes}

Unset == <<"unset">>

----------------------------------------------------------------------------
(* State machine of one run *)

Idle ==
    /\ priv_users = {}
    /\ hash_map = <<>>
    /\ idx = 1
    /\ shared_hashes = <<>>
    /\ sorted_hashes = <<>>
    /\ total_priv_reuse = 0
    /\ total_self_reuse = 0
    /\ gi = 1
    /\ out = <<>>
    /\ exit_status = -1

\* a run on a short dump with any privileged list and either setting of
\* include_empty
InitVaried ==
    /\ priv_file \in {"absent", "missing", "unreadable", "ok"}
    /\ priv_lines \in (IF priv_file = "ok" THEN PrivFiles ELSE {<<>>})
    /\ filename \in {"missing", "unreadable", "ok"}
    /\ lines \in (IF filename = "ok" THEN DumpFiles ELSE {<<>>})
    /\ include_empty \in BOOLEAN

\* a run on a longer dump without a privileged list
InitLong ==
    /\ priv_file = "absent"
    /\ priv_lines = <<>>
    /\ filename = "ok"
    /\ lines \in SortFiles
    /\ include_empty = FALSE

Init ==
    /\ InitVaried \/ InitLong
    /\ pc = "load_priv"
    /\ Idle
    /\ full_username = <<>>
    /\ base = Unset

Inputs == <<priv_file, priv_lines, filename, lines, include_empty, full_username, base>>

\* load_privileged_users: "if not filepath: return priv_users"
LoadPrivAbsent ==
    /\ pc = "load_priv" /\ priv_file = "absent"
    /\ priv_users' = {}
    /\ pc' = "check_dump"
    /\ UNCHANGED <<Inputs, hash_map, idx, shared_hashes, sorted_hashes,
                   total_priv_reuse, total_self_reuse, gi, out, exit_status>>

\* load_privileged_users: "if not os.path.exists(filepath)": warn, empty set
LoadPrivMissing ==
    /\ pc = "load_priv" /\ priv_file = "missing"
    /\ priv_users' = {}
    /\ out' = Append(out, [kind |-> "priv_warning"])
    /\ pc' = "check_dump"
    /\ UNCHANGED <<Inputs, hash_map, idx, shared_hashes, sorted_hashes,
                   total_priv_reuse, total_self_reuse, gi, exit_status>>

\* load_privileged_users: open() raises, nothing catches it
LoadPrivError ==
    /\ pc = "load_priv" /\ priv_file = "unreadable"
    /\ out' = Append(out, [kind |-> "traceback"])
    /\ exit_status' = 1
    /\ pc' = "exit"
    /\ UNCHANGED <<Inputs, priv_users, hash_map, idx, shared_hashes,
                   sorted_hashes, total_priv_reuse, total_self_reuse, gi>>

\* load_privileged_users: the file is read
LoadPrivRead ==
    /\ pc = "load_priv" /\ priv_file = "ok"
    /\ priv_users' = load_privileged_users(priv_lines)
    /\ pc' = "check_dump"
    /\ UNCHANGED <<Inputs, hash_map, idx, shared_hashes, sorted_hashes,
                   total_priv_reuse, total_self_reuse, gi, out, exit_status>>

\* variant: the error is printed but the run goes on as with an empty dump
DumpNotFound_no_exit ==
    /\ pc = "check_dump" /\ filename = "missing"
    /\ out' = Append(out, [kind |-> "error_not_found"])
    /\ idx' = 1
    /\ pc' = "parse"
    /\ UNCHANGED <<Inputs, priv_users, hash_map, shared_hashes, sorted_hashes,
                   total_priv_reuse, total_self_reuse, gi, exit_status>>

\* "if not os.path.exists(filename)": error, sys.exit(1)
DumpNotFound ==
    /\ pc = "check_dump" /\ filename = "missing"
    /\ out' = Append(out, [kind |-> "error_not_found"])
    /\ exit_status' = 1
    /\ pc' = "exit"
    /\ UNCHANGED <<Inputs, priv_users, hash_map, idx, shared_hashes,
                   sorted_hashes, total_priv_reuse, total_self_reuse, gi>>

\* open() of the dump raises inside the try: error, sys.exit(1)
DumpReadError ==
    /\ pc = "check_dump" /\ filename = "unreadable"
    /\ out' = Append(out, [kind |-> "error_reading"])
    /\ exit_status' = 1
    /\ pc' = "exit"
    /\ UNCHANGED <<Inputs, priv_users, hash_map, idx, shared_hashes,
                   sorted_hashes, total_priv_reuse, total_self_reuse, gi>>

\* the dump opens
OpenDump ==
    /\ pc = "check_dump" /\ filename = "ok"
    /\ idx' = 1
    /\ pc' = "parse"
    /\ UNCHANGED <<Inputs, priv_users, hash_map, shared_hashes, sorted_hashes,
                   total_priv_reuse, total_self_reuse, gi, out, exit_status>>

\* one iteration of "for line in f"
ParseLine ==
    /\ pc = "parse" /\ idx <= Len(lines)
    /\ hash_map' = parse_line(hash_map, lines[idx], include_empty)
    /\ idx' = idx + 1
    /\ UNCHANGED <<Inputs, pc, priv_users, shared_hashes, sorted_hashes,
                   total_priv_reuse, total_self_reuse, gi, out, exit_status>>

\* end of file: filter for shared hashes and sort
FilterSort ==
    /\ pc = "parse" /\ idx > Len(lines)
    /\ shared_hashes' = filter_shared(hash_map)
    /\ sorted_hashes' = sorted_by_len_desc(filter_shared(hash_map))
    /\ total_priv_reuse' = 0
    /\ total_self_reuse' = 0
    /\ gi' = 1
    /\ pc' = "stats"
    /\ UNCHANGED <<Inputs, priv_users, hash_map, idx, out, exit_status>>

\* one iteration of the pre-scan "for _, users in sorted_hashes"
StatsGroup ==
    /\ pc = "stats" /\ gi <= Len(sorted_hashes)
    /\ total_priv_reuse' =
          total_priv_reuse + priv_hits(sorted_hashes[gi].users, priv_users)
    /\ total_self_reuse' =
          total_self_reuse + (IF has_self_reuse(sorted_hashes[gi].users) THEN 1 ELSE 0)
    /\ gi' = gi + 1
    /\ UNCHANGED <<Inputs, pc, priv_users, hash_map, idx, shared_hashes,
                   sorted_hashes, out, exit_status>>

\* the summary block
PrintSummary ==
    /\ pc = "stats" /\ gi > Len(sorted_hashes)
    /\ out' = Append(out, [kind |-> "summary",
                           unique |-> Len(hash_map),
                           shared |-> Len(shared_hashes),
                           priv_reuse |-> total_priv_reuse,
                           self_reuse |-> total_self_reuse])
    /\ gi' = 1
    /\ pc' = "details"
    /\ UNCHANGED <<Inputs, priv_users, hash_map, idx, shared_hashes,
                   sorted_hashes, total_priv_reuse, total_self_reuse, exit_status>>

\* one iteration of the detail loop "for nt_hash, users in sorted_hashes"
PrintGroup ==
    /\ pc = "details" /\ gi <= Len(sorted_hashes)
    /\ out' = Append(out, [kind |-> "group",
                           hash |-> sorted_hashes[gi].hash,
                           count |-> Len(sorted_hashes[gi].users),
                           users |-> formatted_users_of(sorted_hashes[gi].users,
                                                        priv_users)])
    /\ gi' = gi + 1
    /\ UNCHANGED <<Inputs, pc, priv_users, hash_map, idx, shared_hashes,
                   sorted_hashes, total_priv_reuse, total_self_reuse, exit_status>>

\* analyze_hashes returns
Finish ==
    /\ pc = "details" /\ gi > Len(sorted_hashes)
    /\ exit_status' = 0
    /\ pc' = "done"
    /\ UNCHANGED <<Inputs, priv_users, hash_map, idx, shared_hashes,
                   sorted_hashes, total_priv_reuse, total_self_reuse, gi, out>>

Next ==
    \/ LoadPrivAbsent
    \/ LoadPrivMissing
    \/ LoadPrivError
    \/ LoadPrivRead
    \/ DumpNotFound
    \/ DumpReadError
    \/ OpenDump
    \/ ParseLine
    \/ FilterSort
    \/ StatsGroup
    \/ PrintSummary
    \/ PrintGroup
    \/ Finish

Spec == Init /\ [][Next]_vars

----------------------------------------------------------------------------
(* Stand-alone calls of get_base_username *)

InitNorm ==
    /\ priv_file = "absent"
    /\ priv_lines = <<>>
    /\ filename = "missing"
    /\ lines = <<>>
    /\ include_empty = FALSE
    /\ pc = "call"
    /\ Idle
    /\ full_username \in Names
    /\ base = Unset

CallBase ==
    /\ pc = "call"
    /\ base' = get_base_username(full_username)
    /\ pc' = "returned"
    /\ UNCHANGED <<priv_file, priv_lines, filename, lines, include_empty,
                   priv_users, hash_map, idx, shared_hashes, sorted_hashes,
                   total_priv_reuse, total_self_reuse, gi, out, exit_status,
                   full_username>>

NextNorm == CallBase

SpecNorm == InitNorm /\ [][NextNorm]_vars

----------------------------------------------------------------------------
(* Reference definitions used to state the properties.  They are written    *)
(* from positions and sets, not from the loops of the code.                 *)

Max(S) == CHOOSE x \in S : \A y \in S : y <= x
Min(S) == CHOOSE x \in S : \A y \in S : x <= y

\* the text after the last backslash, lower-cased
RefClean(raw) ==
    LET bs == {i \in 1..Len(raw) : raw[i] = BACKSLASH}
        start == IF bs = {} THEN 1 ELSE Max(bs) + 1
    IN  lower(SubSeq(raw, start, Len(raw)))

RefPrefixMatches(u) == {k \in 1..Len(PREFIXES) : startswith(u, PREFIXES[k])}
RefSuffixMatches(u) == {k \in 1..Len(SUFFIXES) : endswith(u, SUFFIXES[k])}

\* base identity: at most one strip, the first matching prefix before any suffix
RefBase(raw) ==
    LET u == RefClean(raw) IN
        IF RefPrefixMatches(u) # {}
        THEN SubSeq(u, Len(PREFIXES[Min(RefPrefixMatches(u))]) + 1, Len(u))
        ELSE IF RefSuffixMatches(u) # {}
        THEN SubSeq(u, 1, Len(u) - Len(SUFFIXES[Min(RefSuffixMatches(u))]))
        ELSE u

\* how many members of a group have the base identity of u
RefBaseCount(users, u) ==
    Cardinality({k \in 1..Len(users) : RefBase(users[k]) = RefBase(u)})

\* what one input line holds: whether it is a non-empty line with at least
\* 4 colon-separated fields, its field 0 and its lower-cased field 3
RefRecord(raw) ==
    LET line == strip(raw)
        parts == split(line, ":")
    IN  IF line # <<>> /\ Len(parts) >= 4
        THEN [valid |-> TRUE, user |-> parts[1], field3 |-> parts[4],
              hash |-> lower(parts[4])]
        ELSE [valid |-> FALSE, user |-> <<>>, field3 |-> <<>>, hash |-> <<>>]

\* the records of the first n input lines
RECURSIVE RefRecords(_)
RefRecords(n) ==
    IF n = 0 THEN <<>> ELSE Append(RefRecords(n - 1), RefRecord(lines[n]))

RefValidIdx(recs) == {i \in 1..Len(recs) : recs[i].valid}

RefNonEmptyIdx(recs) == {i \in RefValidIdx(recs) : recs[i].hash # EMPTY_HASH}

\* the records that pass the empty-hash filter as well
RefAcceptedIdx(recs) ==
    IF include_empty THEN RefValidIdx(recs) ELSE RefNonEmptyIdx(recs)

\* the usernames of the records in S with hash h, among the first n records,
\* in input order
RECURSIVE RefUsersUpTo(_, _, _, _)
RefUsersUpTo(recs, S, h, n) ==
    IF n = 0 THEN <<>>
    ELSE IF n \in S /\ recs[n].hash = h
         THEN Append(RefUsersUpTo(recs, S, h, n - 1), recs[n].user)
         ELSE RefUsersUpTo(recs, S, h, n - 1)

RefUsersIn(recs, S, h) == RefUsersUpTo(recs, S, h, Len(recs))

RECURSIVE SumLens(_)
SumLens(hm) == IF hm = <<>> THEN 0 ELSE Len(Head(hm).users) + SumLens(Tail(hm))

\* line number at which hash h first appears in the input
RefFirstAppearance(recs, h) ==
    Min({i \in RefValidIdx(recs) : recs[i].hash = h})

IsGroupBlock(b) == b.kind = "group"
IsSummary(b) == b.kind = "summary"

\* the group blocks printed so far, in order
GroupBlocks == SelectSeq(out, IsGroupBlock)

Summaries == SelectSeq(out, IsSummary)

Parsed == pc \in {"stats", "details", "done"}
Summarised == pc \in {"details", "done"}

TagShapes == {<<"YELLOW", "(DA)">>, <<"CYAN", "">>, <<"RED", "">>, <<"", "">>}

----------------------------------------------------------------------------
(* Properties *)

\* C1: every member of every printed reuse group gets exactly one entry of
\* exactly one of the four tag shapes (Privileged, Self-Reuse,
\* Pattern-Suspected, Standard), and a member whose domain-stripped,
\* lower-cased name is in the privileged set gets the Privileged shape,
\* whatever its base identity or its name pattern.
C1_ExactlyOneTagPrivilegedWins ==
    \A j \in 1..Len(GroupBlocks) :
        LET users == sorted_hashes[j].users
            fmt == GroupBlocks[j].users
        IN  /\ Len(fmt) = Len(users)
            /\ \A i \in 1..Len(users) :
                /\ fmt[i].user = users[i]
                /\ <<fmt[i].color, fmt[i].suffix>> \in TagShapes
                /\ RefClean(users[i]) \in priv_users
                      => <<fmt[i].color, fmt[i].suffix>> = <<"YELLOW", "(DA)">>

\* a printed member that is privileged, collides on its base identity and
\* matches an administrative pattern
C1_Witness ==
    \E j \in 1..Len(GroupBlocks) :
        \E i \in 1..Len(GroupBlocks[j].users) :
            LET u == GroupBlocks[j].users[i].user IN
                /\ GroupBlocks[j].users[i].color = "YELLOW"
                /\ RefBaseCount(sorted_hashes[j].users, u) > 1
                /\ RefPrefixMatches(RefClean(u)) # {}

\* C2: a member that is not in the privileged set is tagged Self-Reuse iff
\* its base identity occurs more than once among the base identities of all
\* members of its group, privileged members included.
C2_SelfReuseIffBaseRepeats ==
    \A j \in 1..Len(GroupBlocks) :
        LET users == sorted_hashes[j].users
            fmt == GroupBlocks[j].users
        IN  \A i \in 1..Len(users) :
                RefClean(users[i]) \notin priv_users
                   => (fmt[i].color = "CYAN" <=> RefBaseCount(users, users[i]) > 1)

\* an admin-styled member tagged Self-Reuse whose only partner is privileged
C2_Witness ==
    \E j \in 1..Len(GroupBlocks) :
        LET users == sorted_hashes[j].users
            fmt == GroupBlocks[j].users
        IN  \E i \in 1..Len(users) :
                /\ fmt[i].color = "CYAN"
                /\ RefPrefixMatches(RefClean(users[i])) # {}
                /\ \A k \in 1..Len(users) :
                      (k # i /\ RefBase(users[k]) = RefBase(users[i]))
                         => fmt[k].color = "YELLOW"

ScenarioRun ==
    /\ lines = <<LineBob, LineAdmBob, LineAlice>>
    /\ priv_file = "absent"
    /\ ~include_empty
    /\ pc = "done"

NameBob == <<"b","o","b">>
NameAdmBob == <<"a","d","m","_","b","o","b">>
HashE0 == <<"e","0">>

\* C3 as stated: one group e0 [bob, adm_bob], bob Standard, adm_bob
\* Self-Reuse, self-reuse-group count 1.
C3_Original ==
    ScenarioRun =>
        /\ GroupBlocks = << [kind |-> "group", hash |-> HashE0, count |-> 2,
                             users |-> << [color |-> "", user |-> NameBob, suffix |-> ""],
                                          [color |-> "CYAN", user |-> NameAdmBob, suffix |-> ""] >>] >>
        /\ Len(Summaries) = 1
        /\ Summaries[1].self_reuse = 1

\* C3 amended: one group e0 [bob, adm_bob], bob and adm_bob both Self-Reuse,
\* self-reuse-group count 1.
C3_Amended ==
    ScenarioRun =>
        /\ GroupBlocks = << [kind |-> "group", hash |-> HashE0, count |-> 2,
                             users |-> << [color |-> "CYAN", user |-> NameBob, suffix |-> ""],
                                          [color |-> "CYAN", user |-> NameAdmBob, suffix |-> ""] >>] >>
        /\ Len(Summaries) = 1
        /\ Summaries[1].self_reuse = 1
        /\ Summaries[1].shared = 1

C3_Witness == ScenarioRun /\ Len(GroupBlocks) = 1

\* C8: get_base_username returns the domain-stripped, lower-cased name with
\* the first matching prefix removed if any prefix matches, else with the
\* first matching suffix removed if any suffix matches, else unchanged.
C8_BaseIdentity ==
    pc = "returned" => base = RefBase(full_username)

\* a name that matches both a prefix and a suffix kept its suffix
C8_Witness ==
    /\ pc = "returned"
    /\ contains(full_username, BACKSLASH)
    /\ RefPrefixMatches(RefClean(full_username)) # {}
    /\ RefSuffixMatches(RefClean(full_username)) # {}
    /\ RefSuffixMatches(base) # {}
    /\ full_username # RefClean(full_username)


\* C4: the reuse groups are exactly the hash groups with more than one
\* member, in non-increasing order of member count, groups of equal count in
\* the order in which their hash first appeared in the input; the group
\* blocks are printed in that order.
C4_ReuseGroupsSorted ==
    Parsed =>
      LET recs == RefRecords(Len(lines)) IN
        /\ set(sorted_hashes) = {g \in set(hash_map) : Len(g.users) > 1}
        /\ Len(sorted_hashes) = Cardinality(set(sorted_hashes))
        /\ \A i, j \in 1..Len(sorted_hashes) :
              i < j =>
                /\ Len(sorted_hashes[i].users) >= Len(sorted_hashes[j].users)
                /\ Len(sorted_hashes[i].users) = Len(sorted_hashes[j].users)
                      => RefFirstAppearance(recs, sorted_hashes[i].hash)
                           < RefFirstAppearance(recs, sorted_hashes[j].hash)
        /\ Len(GroupBlocks) <= Len(sorted_hashes)
        /\ pc = "done" => Len(GroupBlocks) = Len(sorted_hashes)
        /\ \A j \in 1..Len(GroupBlocks) :
              /\ GroupBlocks[j].hash = sorted_hashes[j].hash
              /\ GroupBlocks[j].count = Len(sorted_hashes[j].users)

\* a finished run in which the sort moved a later-appearing, larger group ahead
C4_Witness ==
    /\ pc = "done"
    /\ Len(GroupBlocks) = 2
    /\ GroupBlocks[1].count > GroupBlocks[2].count
    /\ RefFirstAppearance(RefRecords(Len(lines)), GroupBlocks[1].hash)
          > RefFirstAppearance(RefRecords(Len(lines)), GroupBlocks[2].hash)

\* C5: after parsing the first idx-1 lines, every hash group is non-empty,
\* the member counts sum to the number of accepted records, and each group
\* holds, verbatim and in input order, the usernames of exactly the accepted
\* records whose lower-cased field 3 is its key; repeats are kept.
C5_HashGroups ==
    LET recs == RefRecords(idx - 1)
        acc == RefAcceptedIdx(recs)
    IN  /\ \A g \in 1..Len(hash_map) : Len(hash_map[g].users) >= 1
        /\ \A g, h \in 1..Len(hash_map) :
              hash_map[g].hash = hash_map[h].hash => g = h
        /\ SumLens(hash_map) = Cardinality(acc)
        /\ \A g \in 1..Len(hash_map) :
              hash_map[g].users = RefUsersIn(recs, acc, hash_map[g].hash)
        /\ \A i \in acc :
              \E g \in 1..Len(hash_map) : hash_map[g].hash = recs[i].hash

\* all lines parsed, one of them skipped, and a group holding the same
\* username twice
C5_Witness ==
    /\ Parsed
    /\ RefAcceptedIdx(RefRecords(Len(lines))) # 1..Len(lines)
    /\ \E g \in 1..Len(hash_map) :
          /\ Len(hash_map[g].users) = 2
          /\ hash_map[g].users[1] = hash_map[g].users[2]

RefHashes(recs, S) == {recs[i].hash : i \in S}

RefSharedIn(recs, S) ==
    {h \in RefHashes(recs, S) : Cardinality({i \in S : recs[i].hash = h}) > 1}

RefCollides(users) ==
    \E a, b \in 1..Len(users) : a # b /\ RefBase(users[a]) = RefBase(users[b])

\* the four figures of the summary as computed from the records in S alone
RefSummary(recs, S) ==
    LET shared == RefSharedIn(recs, S) IN
    [kind |-> "summary",
     unique |-> Cardinality(RefHashes(recs, S)),
     shared |-> Cardinality(shared),
     priv_reuse |-> Cardinality({i \in S : /\ recs[i].hash \in shared
                                          /\ RefClean(recs[i].user) \in priv_users}),
     self_reuse |-> Cardinality({h \in shared : RefCollides(RefUsersIn(recs, S, h))})]

\* C6: without include_empty a record whose field 3 is the empty-password
\* hash in any letter case is in no group and the summary is the one of the
\* input without these records; with include_empty it is grouped under the
\* lower-cased empty hash like any other record.
C6_EmptyHashFilter ==
    /\ ~include_empty =>
          /\ \A g \in 1..Len(hash_map) : hash_map[g].hash # EMPTY_HASH
          /\ \A g \in 1..Len(sorted_hashes) : sorted_hashes[g].hash # EMPTY_HASH
          /\ \A j \in 1..Len(GroupBlocks) : GroupBlocks[j].hash # EMPTY_HASH
          /\ Summarised =>
                LET recs == RefRecords(Len(lines)) IN
                    Summaries = <<RefSummary(recs, RefNonEmptyIdx(recs))>>
    /\ (include_empty /\ Parsed) =>
          LET recs == RefRecords(Len(lines)) IN
              /\ \A i \in RefValidIdx(recs) :
                    recs[i].hash = EMPTY_HASH =>
                        \E g \in 1..Len(hash_map) :
                            /\ hash_map[g].hash = EMPTY_HASH
                            /\ hash_map[g].users
                                 = RefUsersIn(recs, RefValidIdx(recs), EMPTY_HASH)
              /\ Summarised => Summaries = <<RefSummary(recs, RefValidIdx(recs))>>

\* a finished run without include_empty whose input held an empty-hash
\* record in upper case next to a reuse group
C6_Witness ==
    /\ pc = "done"
    /\ ~include_empty
    /\ \E i \in 1..Len(lines) :
          /\ RefRecord(lines[i]).hash = EMPTY_HASH
          /\ RefRecord(lines[i]).field3 # EMPTY_HASH
    /\ Len(GroupBlocks) = 1

\* C7: the self-reuse-group statistic equals the number of reuse groups in
\* which two members with different raw usernames reduce to the same base
\* identity.
C7_SelfReuseCountsDistinctMembers ==
    Summarised =>
        total_self_reuse =
            Cardinality({j \in 1..Len(sorted_hashes) :
                \E a, b \in 1..Len(sorted_hashes[j].users) :
                    /\ sorted_hashes[j].users[a] # sorted_hashes[j].users[b]
                    /\ RefBase(sorted_hashes[j].users[a])
                         = RefBase(sorted_hashes[j].users[b])})

Terminated == pc \in {"exit", "done"}

\* C9: when the dump file does not exist the run never parses, never prints
\* a summary or group block, and ends with a non-zero status after the
\* not-found diagnostic (after the warning, if the privileged list is missing
\* too); a missing privileged list with a dump that exists never ends the
\* run with an error.
C9_MissingDumpIsFatal ==
    /\ filename = "missing" =>
          /\ pc \in {"load_priv", "check_dump", "exit"}
          /\ Summaries = <<>> /\ GroupBlocks = <<>>
          /\ Terminated =>
                /\ exit_status = 1
                /\ priv_file # "unreadable" =>
                      out[Len(out)] = [kind |-> "error_not_found"]
    /\ (filename = "ok" /\ priv_file = "missing") =>
          /\ pc # "exit"
          /\ exit_status \in {-1, 0}
          /\ pc # "load_priv" => out[1] = [kind |-> "priv_warning"]

\* the run ended on a missing dump after warning about a missing list
C9_Witness ==
    /\ pc = "exit"
    /\ filename = "missing"
    /\ priv_file = "missing"
    /\ Len(out) = 2

CyanCount(fmt) == Cardinality({i \in 1..Len(fmt) : fmt[i].color = "CYAN"})

\* the base identities of the members of a group
RECURSIVE RefBases(_)
RefBases(users) ==
    IF users = <<>> THEN <<>>
    ELSE <<RefBase(Head(users))>> \o RefBases(Tail(users))

\* some member's base identity occurs more than once among the group's
RefSomeBaseRepeats(users) ==
    LET bases == RefBases(users) IN
        \E i \in 1..Len(bases) :
            Cardinality({k \in 1..Len(bases) : bases[k] = bases[i]}) > 1

\* C10: a reuse group is counted by the statistic iff some member's base
\* identity occurs more than once among the group's base identities; no
\* member is tagged Self-Reuse in a group the statistic does not count; with
\* an empty privileged set a group has 0 or at least 2 Self-Reuse members.
C10_StatisticAgreesWithTags ==
    LET repeats == [j \in 1..Len(sorted_hashes) |->
                        RefSomeBaseRepeats(sorted_hashes[j].users)]
    IN  /\ \A j \in 1..Len(sorted_hashes) :
              has_self_reuse(sorted_hashes[j].users) <=> repeats[j]
        /\ Summarised =>
              total_self_reuse =
                  Cardinality({j \in 1..Len(sorted_hashes) : repeats[j]})
        /\ pc = "stats" =>
              total_self_reuse = Cardinality({j \in 1..(gi - 1) : repeats[j]})
        /\ \A j \in 1..Len(GroupBlocks) :
              /\ CyanCount(GroupBlocks[j].users) > 0 => repeats[j]
              /\ priv_users = {} => CyanCount(GroupBlocks[j].users) # 1

\* a counted group printed with exactly two Self-Reuse members next to a
\* member that has no tag
C10_Witness ==
    /\ priv_users = {}
    /\ total_self_reuse = 1
    /\ \E j \in 1..Len(GroupBlocks) :
          /\ CyanCount(GroupBlocks[j].users) = 2
          /\ Len(GroupBlocks[j].users) = 3

====
